---------------------------- MODULE Spec2Model ----------------------------
(***************************************************************************)
(* Recorder Button plugin (src/recorder_button/recorder_button.py).        *)
(*                                                                         *)
(* The plugin is event wiring on the single UI dispatch thread of the      *)
(* host.  Each action below is one handler of the plugin run to            *)
(* completion (signal emissions and event-filter calls made by the         *)
(* handler included), or one step of the host that the plugin observes.    *)
(*                                                                         *)
(* Two concerns share the module:                                          *)
(*   - the button/state mirror: N checkable toolbar actions kept           *)
(*     consistent with the recorder's toggle action (the external flag);   *)
(*   - the popup docker controller: right-click shows the recorder         *)
(*     docker and a global event filter (the watcher) closes it on the     *)
(*     next outside press.                                                 *)
(***************************************************************************)
EXTENDS Integers, Sequences, FiniteSets, TLC

\* ------------------------------------------------------------------------
\* Bounds of the model
\* ------------------------------------------------------------------------
\* Number of host windows created (one mirrored control per window).
MaxWindows == 2
\* Number of DockerAutoCloseFilter objects ever constructed.
MaxWatchers == 2
\* Number of zero-delay close callbacks pending at once.
MaxPending == 2
\* Depth of right-click handlers suspended inside QApplication.processEvents.
MaxNest == 2
\* Width and height, in pixels, of the primary screen.
ScreenW == 3
ScreenH == 3
\* Longest list found in the size-lock property.
MaxStored == 5
\* Number of pixels of a rasterized icon.
MaxPixels == 2

VARIABLES
    \* ---- RecorderButtonExtension, class level (lines 164-166)
    icon_recording,      \* _icon_recording:     "None" | "Null" | "Base"
    icon_not_recording,  \* _icon_not_recording: "None" | "Null" | "Dimmed" | "Base"
    icons_prepared,      \* _icons_prepared
    \* ---- RecorderButtonExtension, instance level (lines 170-177)
    actions,             \* _actions: sequence of [checked, icon, tip]
    recorder_action,     \* _recorder_action is not None
    hooked,              \* _hooked
    hook_timer,          \* _hook_timer is not None
    hookPending,         \* started single-shot discovery timers that have not fired
    auto_close_filter,   \* _auto_close_filter: 0 (None) or an index into watchers
    btnFilter,           \* per action: its tool button carries a ToolButtonEventFilter
    installTimer,        \* per action: the 500 ms singleShot of createActions is pending
    \* ---- host state the plugin reads and writes
    setupDone,           \* the host has called setup()
    recAvail,            \* app.action("recorder_record_toggle") is not None
    flag,                \* recorder_action.isChecked(): the external recording flag
    connections,         \* handlers connected to recorder_action.toggled
    dockerPresent,       \* a QDockWidget named/titled "Recorder" exists
    dockerVisible,       \* docker.isVisible()
    dockerFloating,      \* docker.isFloating()
    watchers,            \* DockerAutoCloseFilter objects: [active, installed, stale]
    pending,             \* queue of QTimer.singleShot(0, w._close_docker) callbacks
    stack,               \* right-click handlers suspended in processEvents
    cursor,              \* QCursor.pos(): <<x, y>>
    dockerSize,          \* docker.size(): <<width, height>>
    dockerPos,           \* docker.pos(), written by docker.move: <<x, y>>
    sizeConstraints,     \* docker minimum/maximum width and height
    lockProperty,        \* docker.property("_super_docker_lock_dock_size_constraints")
    \* ---- one rasterized size of the icon being dimmed (lines 261-295)
    target_size,         \* the size asked of icon.pixmap
    src_image,           \* src_pixmap.toImage() before the pixel loop
    new_image,           \* the image after the pixel loop
    \* ---- bookkeeping of the last handler that ran (not program state)
    last

mirrorVars == <<actions, recorder_action, hooked, hook_timer, hookPending,
                recAvail, flag, connections>>
iconVars   == <<icon_recording, icon_not_recording, icons_prepared, setupDone>>
buttonVars == <<btnFilter, installTimer>>
popupVars  == <<auto_close_filter, dockerPresent, dockerVisible, dockerFloating,
                watchers, pending, stack>>
geomVars   == <<cursor, dockerSize, dockerPos, sizeConstraints, lockProperty>>
rasterVars == <<target_size, src_image, new_image>>
extraVars  == <<geomVars, rasterVars>>
vars == <<mirrorVars, iconVars, buttonVars, popupVars, extraVars, last>>

\* ------------------------------------------------------------------------
\* Icons
\* ------------------------------------------------------------------------
\* A Python object is falsy only when it is None: QIcon defines no __bool__,
\* so an empty QIcon() is truthy (lines 199, 398, 402).
Truthy(icon) == icon # "None"

\* -- the pixel loop of _create_desaturated_icon (lines 273-290)
\* Largest value of a colour channel (QColor.red() ... alpha()).
MaxChannel == 255
\* The luminance weights of line 283, in thousandths, and the opacity passed
\* at line 242, in hundredths.
WeightR == 299
WeightG == 587
WeightB == 114
OpacityPercent == 30

\* target_sizes (line 259).
TargetSizes == {16, 22, 24, 32, 48, 64, 128}

\* The pixels of the model: greys and primaries, transparent to opaque.
GreyLevels == {0, 1, 2, MaxChannel}
Colours ==
    {<<v, v, v>> : v \in GreyLevels}
    \cup {<<MaxChannel, 0, 0>>, <<0, MaxChannel, 0>>, <<0, 0, MaxChannel>>}
Alphas == {0, 2, 5, MaxChannel}
Pixel(c, a) == [r |-> c[1], g |-> c[2], b |-> c[3], a |-> a]
Pixels == {Pixel(c, a) : c \in Colours, a \in Alphas}
Images == UNION {[1..n -> Pixels] : n \in 1..MaxPixels}

\* The colours of the model for which the sum of line 283, evaluated in
\* double precision, is just below the integer it equals in exact arithmetic:
\* 0.299*1 + 0.587*1 + 0.114*1 is 0.9999999999999999 and the same sum for 2
\* is 1.9999999999999998.
SumBelowInteger == {<<1, 1, 1>>, <<2, 2, 2>>}

\* int(0.299 * red + 0.587 * green + 0.114 * blue) (line 283): int() cuts
\* the fraction of the double-precision sum.
Gray(r, g, b) ==
    LET exact == (WeightR * r + WeightG * g + WeightB * b) \div 1000
    IN  IF <<r, g, b>> \in SumBelowInteger THEN exact - 1 ELSE exact

\* int(pixel.alpha() * opacity) (line 286); the double-precision product has
\* the integer part of the exact one for every alpha in 0..255.
NewAlpha(a) == (a * OpacityPercent) \div 100

\* A variant of the loop body that does not skip transparent pixels.
DesaturateEveryPixel(p) ==
    [r |-> Gray(p.r, p.g, p.b), g |-> Gray(p.r, p.g, p.b),
     b |-> Gray(p.r, p.g, p.b), a |-> NewAlpha(p.a)]

\* The body of the pixel loop (lines 276-290): the colour set at (x, y).
DesaturatePixel(p) ==
    IF p.a = 0 THEN p
    ELSE [r |-> Gray(p.r, p.g, p.b), g |-> Gray(p.r, p.g, p.b),
          b |-> Gray(p.r, p.g, p.b), a |-> NewAlpha(p.a)]

\* The pixel loop over one image (lines 274-290).
DesaturateImage(img) == [k \in 1..Len(img) |-> DesaturatePixel(img[k])]

\* _create_desaturated_icon (lines 245-298) at the level of whole icons: the
\* processed icon, or the original when no size could be rasterized.
CreateDesaturatedIcon(icon, rasterOK) ==
    IF rasterOK THEN "Dimmed" ELSE icon

\* _prepare_icons (lines 217-243): the class-level triple after the call, given
\* what Krita.instance().icon("media-record") returns.
PrepareIcons(cur, hostIcon, rasterOK) ==
    IF cur.prepared THEN cur
    ELSE IF hostIcon = "Null"
         THEN [rec |-> "Null", notrec |-> "Null", prepared |-> FALSE]
         ELSE [rec |-> hostIcon,
               notrec |-> CreateDesaturatedIcon(hostIcon, rasterOK),
               prepared |-> TRUE]

\* A variant of _update_action_icon that sets the recording icon in both
\* branches.
UpdateActionIconAlwaysFull(a, is_recording) ==
    [a EXCEPT !.icon = IF Truthy(icon_recording) THEN icon_recording ELSE @,
              !.tip = IF is_recording THEN "stop" ELSE "start"]

\* _update_action_icon (lines 386-404).
UpdateActionIcon(a, is_recording) ==
    IF is_recording
    THEN [a EXCEPT !.icon = IF Truthy(icon_recording) THEN icon_recording ELSE @,
                   !.tip = "stop"]
    ELSE [a EXCEPT !.icon = IF Truthy(icon_not_recording) THEN icon_not_recording ELSE @,
                   !.tip = "start"]

\* ------------------------------------------------------------------------
\* The button/state mirror: handlers as functions of the mirror state
\*   st = [acts, flag, ra, w, e, p]
\* acts/flag/ra are _actions, the external flag and "_recorder_action is set";
\* w counts recorder_action.setChecked calls made by the extension, e counts
\* entries of _on_button_toggled, p counts passes of _sync_all_actions.
\* ------------------------------------------------------------------------
\* A variant of _sync_all_actions without the blockSignals calls.
SignalsNotBlocked == FALSE

\* action.blockSignals(True) ... blockSignals(False) around setChecked
\* (lines 379-381).
SignalsBlockedDuringSync == TRUE

RECURSIVE OnButtonToggled(_, _)
RECURSIVE SetRecorderChecked(_, _)
RECURSIVE EmitRecorderToggled(_, _, _)
RECURSIVE SyncFrom(_, _, _)
RECURSIVE SetActionChecked(_, _, _, _)

\* QAction.setChecked on mirrored control i: no change, no signal; a change
\* emits toggled(v) to _on_button_toggled (connected at line 203) unless the
\* action's signals are blocked.
SetActionChecked(st, i, v, blocked) ==
    IF st.acts[i].checked = v THEN st
    ELSE LET st1 == [st EXCEPT !.acts[i].checked = v]
         IN  IF blocked THEN st1 ELSE OnButtonToggled(st1, v)

\* A variant of _on_button_toggled that forwards without comparing.
ForwardAlways(current, checked) == TRUE

\* The forwarding test of _on_button_toggled (line 354).
ShouldForward(current, checked) == current # checked

\* _on_button_toggled (lines 342-358).
OnButtonToggled(st, checked) ==
    LET st1 == [st EXCEPT !.e = @ + 1,
                          !.ra = IF @ THEN TRUE ELSE recAvail]
    IN  IF st1.ra /\ ShouldForward(st1.flag, checked)
        THEN SetRecorderChecked([st1 EXCEPT !.w = @ + 1], checked)
        ELSE st1

\* QAction.setChecked on the recorder's action (the flag owner): a change
\* emits toggled(v) to every connected handler.
SetRecorderChecked(st, v) ==
    IF st.flag = v THEN st
    ELSE EmitRecorderToggled([st EXCEPT !.flag = v], v, connections)

\* _sync_all_actions (lines 367-384), from control i on.
SyncFrom(st, is_recording, i) ==
    IF i > Len(st.acts) THEN st
    ELSE LET s1 == SetActionChecked(st, i, is_recording, SignalsBlockedDuringSync)
             s2 == [s1 EXCEPT !.acts[i] = UpdateActionIcon(@, is_recording)]
         IN  SyncFrom(s2, is_recording, i + 1)

SyncAllActions(st, is_recording) ==
    SyncFrom([st EXCEPT !.p = @ + 1], is_recording, 1)

\* _on_recorder_state_changed (lines 360-365).
OnRecorderStateChanged(st, is_recording) == SyncAllActions(st, is_recording)

\* recorder_action.toggled delivered to the k connected handlers.
EmitRecorderToggled(st, v, k) ==
    IF k = 0 THEN st
    ELSE EmitRecorderToggled(OnRecorderStateChanged(st, v), v, k - 1)

MirrorState ==
    [acts |-> actions, flag |-> flag, ra |-> recorder_action,
     w |-> 0, e |-> 0, p |-> 0]

\* The record kept of the last handler: which one ran, on what, and what it did.
\* pre is the flag before the handler ran and avail whether the flag's control
\* could be reached then; w, e, p are the counters of the mirror state.
Did(op, i, x, pre, st) ==
    [op |-> op, i |-> i, x |-> x, pre |-> pre,
     avail |-> (recorder_action \/ recAvail),
     w |-> st.w, e |-> st.e, p |-> st.p]

NoEffect == [w |-> 0, e |-> 0, p |-> 0]

\* ------------------------------------------------------------------------
\* Screens, placement and size constraints
\* ------------------------------------------------------------------------
\* QRect: right() and bottom() are the last column and row of the rectangle.
Rect(x, y, w, h) == [x |-> x, y |-> y, w |-> w, h |-> h]
Left(r) == r.x
Top(r) == r.y
Right(r) == r.x + r.w - 1
Bottom(r) == r.y + r.h - 1
Contains(r, p) == p[1] \in Left(r)..Right(r) /\ p[2] \in Top(r)..Bottom(r)

\* The host's screens: the primary screen, whose first row is taken by a
\* desktop bar (availableGeometry excludes it), and a narrow second screen
\* to its right.
Screens ==
    << [geo |-> Rect(0, 0, ScreenW, ScreenH), avail |-> Rect(0, 1, ScreenW, ScreenH - 1)],
       [geo |-> Rect(ScreenW, 0, 2, ScreenH), avail |-> Rect(ScreenW, 0, 2, ScreenH)] >>

\* QApplication.screenAt(p): the screen that contains p, 0 for None.
ScreenAt(p) ==
    IF \E i \in 1..Len(Screens) : Contains(Screens[i].geo, p)
    THEN CHOOSE i \in 1..Len(Screens) : Contains(Screens[i].geo, p)
    ELSE 0

\* QApplication.primaryScreen().
PrimaryScreen == 1

\* The cursor positions and docker sizes of the model: every pixel of the two
\* screens and one point below them; extents below, at and above the screens'.
CursorPositions == ((0..(ScreenW + 1)) \X (0..(ScreenH - 1))) \cup {<<0, ScreenH>>}
DockerSizes == {1, 2, ScreenW, ScreenW + 1} \X {1, ScreenH - 1, ScreenH}

\* A variant of the placement that leaves the axis at the cursor.
PlaceAxisAtCursor(c, extent, lo, hi) == c

\* A variant of the placement without the clamp to the left or top edge.
PlaceAxisNoLowClamp(c, extent, lo, hi) ==
    IF c + extent > hi THEN hi - extent ELSE c

\* One axis of the placement (lines 705-722): c the cursor coordinate, extent
\* the docker's, lo and hi the screen geometry's left()/right() or
\* top()/bottom().
PlaceAxis(c, extent, lo, hi) ==
    LET moved == IF c + extent > hi THEN hi - extent ELSE c
    IN  IF moved < lo THEN lo ELSE moved

\* The position _show_docker_at_cursor moves the docker to (lines 687-725).
Placement(cursor_pos, size) ==
    LET at     == ScreenAt(cursor_pos)
        screen == IF at = 0 THEN PrimaryScreen ELSE at
    IN  IF screen = 0 THEN cursor_pos
        ELSE LET g == Screens[screen].avail
             IN  << PlaceAxis(cursor_pos[1], size[1], Left(g), Right(g)),
                    PlaceAxis(cursor_pos[2], size[2], Top(g), Bottom(g)) >>

\* MAX_QT_DIMENSION (line 517) and the default minimum (lines 530, 532).
MAX_QT_DIMENSION == 16777215
DefaultMinimum == 100

Constraints(minW, maxW, minH, maxH) ==
    [minW |-> minW, maxW |-> maxW, minH |-> minH, maxH |-> maxH]

\* The constraints of a QDockWidget nobody has touched, and of one locked at
\* its size by the size-lock extension.
QtConstraints == Constraints(0, MAX_QT_DIMENSION, 0, MAX_QT_DIMENSION)
LockedConstraints == Constraints(1, 1, 1, 1)

\* Values of the size-lock property: absent (None), a list, or a value that
\* is no list or tuple.  A list of n values.
StoredList(n) == [kind |-> "list", vals |-> [i \in 1..n |-> 40 + 10 * i]]
NoProperty == [kind |-> "none", vals |-> <<>>]
PropertyValues ==
    {NoProperty, [kind |-> "other", vals |-> <<>>]}
    \cup {StoredList(n) : n \in 0..MaxStored}

\* Python truth of the property's value: None and the empty list are false.
PropertyTruthy(stored) ==
    \/ stored.kind = "other"
    \/ stored.kind = "list" /\ Len(stored.vals) > 0

\* _restore_docker_size_constraints (lines 508-533): the constraints and the
\* property after the call.
RestoreDockerSizeConstraints(c, stored) ==
    IF PropertyTruthy(stored) /\ stored.kind = "list" /\ Len(stored.vals) >= 4
    THEN [c |-> Constraints(stored.vals[1], stored.vals[2],
                            stored.vals[3], stored.vals[4]),
          prop |-> NoProperty]
    ELSE [c |-> Constraints(DefaultMinimum, MAX_QT_DIMENSION,
                            DefaultMinimum, MAX_QT_DIMENSION),
          prop |-> stored]

\* ------------------------------------------------------------------------
\* Host lifecycle and the mirror's handlers
\* ------------------------------------------------------------------------
HostIcons == {"Null", "Base"}

\* The host state the extension finds: the cursor, the docker's geometry and
\* constraints as Qt creates them, no size-lock property.
InitGeometry ==
    /\ cursor = <<1, 1>>
    /\ dockerSize = <<1, 1>>
    /\ dockerPos = <<0, 0>>
    /\ sizeConstraints = QtConstraints
    /\ lockProperty = NoProperty

\* No icon is being dimmed.
InitRaster ==
    /\ target_size = 16
    /\ src_image = <<>>
    /\ new_image = <<>>

\* The extension as constructed (lines 164-177) in a host that has loaded
\* neither the recorder's action nor its docker.
InitExtension ==
    /\ icon_recording = "None"
    /\ icon_not_recording = "None"
    /\ icons_prepared = FALSE
    /\ actions = <<>>
    /\ recorder_action = FALSE
    /\ hooked = FALSE
    /\ hook_timer = FALSE
    /\ hookPending = 0
    /\ auto_close_filter = 0
    /\ btnFilter = <<>>
    /\ installTimer = <<>>
    /\ setupDone = FALSE
    /\ recAvail = FALSE
    /\ flag = FALSE
    /\ connections = 0
    /\ dockerPresent = FALSE
    /\ dockerVisible = FALSE
    /\ dockerFloating = FALSE
    /\ watchers = <<>>
    /\ pending = <<>>
    /\ stack = <<>>
    /\ last = Did("init", 0, FALSE, FALSE, NoEffect)

Init == InitExtension /\ InitGeometry /\ InitRaster

\* setup (lines 179-182): called once by the host, before any window exists.
Setup ==
    /\ ~setupDone
    /\ \E hostIcon \in HostIcons, rasterOK \in BOOLEAN :
         LET r == PrepareIcons([rec |-> icon_recording, notrec |-> icon_not_recording,
                                prepared |-> icons_prepared], hostIcon, rasterOK)
         IN  /\ icon_recording' = r.rec
             /\ icon_not_recording' = r.notrec
             /\ icons_prepared' = r.prepared
    /\ setupDone' = TRUE
    /\ last' = Did("setup", 0, FALSE, FALSE, NoEffect)
    /\ UNCHANGED <<mirrorVars, buttonVars, popupVars, extraVars>>

\* A later call of _prepare_icons (lines 217-243) on the class-level cache:
\* setup() of a further RecorderButtonExtension instance, or setup() called
\* again.  The record kept is the pair and the flag the call found.
PrepareIconsAgain ==
    /\ setupDone
    /\ \E hostIcon \in HostIcons, rasterOK \in BOOLEAN :
         LET r == PrepareIcons([rec |-> icon_recording, notrec |-> icon_not_recording,
                                prepared |-> icons_prepared], hostIcon, rasterOK)
         IN  /\ icon_recording' = r.rec
             /\ icon_not_recording' = r.notrec
             /\ icons_prepared' = r.prepared
             /\ last' = [op |-> "prepareIcons", hostIcon |-> hostIcon,
                         rec |-> icon_recording, notrec |-> icon_not_recording,
                         prepared |-> icons_prepared]
    /\ UNCHANGED <<setupDone, mirrorVars, buttonVars, popupVars, extraVars>>

\* A variant of _schedule_hook that starts a timer whether or not one is
\* referenced.
ScheduleHookUnguarded(t) == [ref |-> TRUE, n |-> t.n + 1]

\* _schedule_hook (lines 300-308): the timer reference and the number of
\* started timers after the call.
ScheduleHook(t) ==
    IF t.ref THEN t ELSE [ref |-> TRUE, n |-> t.n + 1]

\* A variant of the retry that gives up after the first failed attempt.
GiveUp(t) == t

\* The retry of _try_hook_recorder_action when the recorder's action is not
\* registered yet (lines 325-329).
RetryHook(t) == ScheduleHook(t)

\* The control createActions registers (lines 190-200).
NewAction(hostIcon) ==
    [checked |-> FALSE,
     icon |-> IF Truthy(icon_not_recording) THEN icon_not_recording ELSE hostIcon,
     tip |-> "toggle"]

\* createActions (lines 184-215).
CreateActions ==
    /\ setupDone
    /\ Len(actions) < MaxWindows
    /\ \E hostIcon \in HostIcons :
         actions' = Append(actions, NewAction(hostIcon))
    /\ LET t == IF ~hooked
                THEN ScheduleHook([ref |-> hook_timer, n |-> hookPending])
                ELSE [ref |-> hook_timer, n |-> hookPending]
       IN  /\ hook_timer' = t.ref
           /\ hookPending' = t.n
    /\ btnFilter' = Append(btnFilter, FALSE)
    /\ installTimer' = Append(installTimer, TRUE)
    /\ last' = Did("createActions", Len(actions) + 1, FALSE, flag, NoEffect)
    /\ UNCHANGED <<recorder_action, hooked, recAvail, flag, connections,
                   iconVars, popupVars, extraVars>>

\* _try_hook_recorder_action (lines 310-340), run when a discovery timer fires.
TryHookRecorderAction ==
    /\ hookPending > 0
    /\ IF hooked
       THEN /\ hook_timer' = FALSE
            /\ hookPending' = hookPending - 1
            /\ last' = Did("tryHook", 0, FALSE, flag, NoEffect)
            /\ UNCHANGED <<actions, recorder_action, hooked, connections>>
       ELSE IF ~recAvail
       THEN LET t == RetryHook([ref |-> FALSE, n |-> hookPending - 1])
            IN  /\ hook_timer' = t.ref
                /\ hookPending' = t.n
                /\ last' = Did("tryHook", 0, FALSE, flag, NoEffect)
                /\ UNCHANGED <<actions, recorder_action, hooked, connections>>
       ELSE LET st == SyncAllActions([MirrorState EXCEPT !.ra = TRUE], flag)
            IN  /\ hook_timer' = FALSE
                /\ hookPending' = hookPending - 1
                /\ recorder_action' = TRUE
                /\ connections' = connections + 1
                /\ actions' = st.acts
                /\ hooked' = TRUE
                /\ last' = Did("hook", 0, flag, flag, st)
    /\ UNCHANGED <<recAvail, flag, iconVars, buttonVars, popupVars, extraVars>>

\* The recorder docker plugin registers its toggle action with the host.
RecorderAppears ==
    /\ ~recAvail
    /\ recAvail' = TRUE
    /\ last' = Did("recorderAppears", 0, FALSE, flag, NoEffect)
    /\ UNCHANGED <<actions, recorder_action, hooked, hook_timer, hookPending, flag,
                   connections, iconVars, buttonVars, popupVars, extraVars>>

\* The recording flag is changed by its owner (the docker's own button, a
\* shortcut, a script): recorder_action toggles and emits toggled.
ExternalFlagChange ==
    /\ recAvail
    /\ LET st == SetRecorderChecked(MirrorState, ~flag)
       IN  /\ actions' = st.acts
           /\ flag' = st.flag
           /\ recorder_action' = st.ra
           /\ last' = Did("flagChanged", 0, ~flag, flag, st)
    /\ UNCHANGED <<hooked, hook_timer, hookPending, recAvail, connections,
                   iconVars, buttonVars, popupVars, extraVars>>

\* The user toggles mirrored control i (click, shortcut): the QAction flips
\* and emits toggled to _on_button_toggled.
LocalToggle(i) ==
    /\ i \in 1..Len(actions)
    /\ LET x  == ~actions[i].checked
           st == SetActionChecked(MirrorState, i, x, FALSE)
       IN  /\ actions' = st.acts
           /\ flag' = st.flag
           /\ recorder_action' = st.ra
           /\ last' = Did("buttonToggled", i, x, flag, st)
    /\ UNCHANGED <<hooked, hook_timer, hookPending, recAvail, connections,
                   iconVars, buttonVars, popupVars, extraVars>>

\* ------------------------------------------------------------------------
\* The popup docker controller
\* ------------------------------------------------------------------------
\* The widgets a press can resolve to (QApplication.widgetAt(QCursor.pos())),
\* "none" when there is no widget under the cursor.
Widgets == {"panel", "panelChild", "otherDock", "otherDockChild", "canvas",
            "button", "mainWindow"}
Targets == {"none", "panelChild", "otherDockChild", "canvas"}

\* QObject.parent() in the host's widget tree.
Parent(w) ==
    CASE w = "panelChild"     -> "panel"
      [] w = "otherDockChild" -> "otherDock"
      [] w = "mainWindow"     -> "none"
      [] OTHER                -> "mainWindow"

IsDockWidget(w) == w \in {"panel", "otherDock"}
NameHasRecorder(w) == w = "panel"

\* _is_click_inside_docker (lines 42-67): the walk up the parents.
RECURSIVE WalkUp(_)
WalkUp(current) ==
    IF current = "none" THEN FALSE
    ELSE IF current = "panel" THEN TRUE
    ELSE IF IsDockWidget(current) /\ NameHasRecorder(current) THEN TRUE
    ELSE WalkUp(Parent(current))

\* A variant of _is_click_inside_docker that tests the widget itself only.
IsClickInsideNoWalk(widget) == widget = "panel"

IsClickInsideDocker(widget) ==
    IF widget = "none" THEN FALSE ELSE WalkUp(widget)

\* The buttons eventFilter reacts to (line 112).
ClosingButtons == {"Left"}

\* Popup state threaded through the handlers:
\*   ps = [ws, acf, pend, vis, sched, hid, ret, seen, cons]
\* ws/acf/pend/vis are watchers, _auto_close_filter, the pending zero-delay
\* callbacks and docker.isVisible(); sched counts the singleShot calls and hid
\* the times the docker was hidden by the handler; ret is the value the last
\* call of a watcher's eventFilter returned, seen counts those calls and cons
\* the calls that returned True.
PopupState ==
    [ws |-> watchers, acf |-> auto_close_filter, pend |-> pending,
     vis |-> dockerVisible, sched |-> 0, hid |-> 0,
     ret |-> FALSE, seen |-> 0, cons |-> 0]

\* A variant of _on_auto_close_filter_removed that keeps the reference.
ReferenceKept(ps) == ps

\* _on_auto_close_filter_removed (lines 406-408).
OnAutoCloseFilterRemoved(ps) == [ps EXCEPT !.acf = 0]

\* A variant of eventFilter without the found-hidden branch.
FoundHiddenIgnored(ps, w) == ps

\* The branch of eventFilter taken when the docker is found hidden
\* (lines 99-106).
FoundHidden(ps, w) ==
    OnAutoCloseFilterRemoved(
        [ps EXCEPT !.ws[w].active = FALSE, !.ws[w].installed = FALSE])

\* A variant of eventFilter that closes inline instead of scheduling.
CloseInline(ps, w) ==
    [ps EXCEPT !.ws[w].active = FALSE, !.ws[w].installed = FALSE,
               !.vis = FALSE, !.hid = @ + 1, !.acf = 0]

\* QTimer.singleShot(0, self._close_docker) (lines 119, 129).
ScheduleClose(ps, w) ==
    [ps EXCEPT !.pend = Append(@, w), !.sched = @ + 1]

\* eventFilter returns: the call is counted and its value kept.
Return(ps, handled) ==
    [ps EXCEPT !.ret = handled, !.seen = @ + 1,
               !.cons = IF handled THEN @ + 1 ELSE @]

\* A variant of eventFilter that reports an outside press as handled.
ConsumesOutsidePress == TRUE

\* The value returned after an outside press scheduled the close
\* (lines 120, 130).
ReturnedAfterSchedule == FALSE

\* DockerAutoCloseFilter.eventFilter (lines 93-132) of watcher w, with the
\* value of each of its return statements.
EventFilter(ps, w, ev) ==
    IF ~ps.ws[w].active THEN Return(ps, FALSE)
    ELSE IF ~ps.vis THEN Return(FoundHidden(ps, w), FALSE)
    ELSE IF ev.type = "MouseButtonPress"
         THEN IF ev.button \in ClosingButtons /\ ~IsClickInsideDocker(ev.target)
              THEN Return(ScheduleClose(ps, w), ReturnedAfterSchedule)
              ELSE Return(ps, FALSE)
    ELSE IF ev.type = "TabletPress"
         THEN IF ~IsClickInsideDocker(ev.target)
              THEN Return(ScheduleClose(ps, w), ReturnedAfterSchedule)
              ELSE Return(ps, FALSE)
    ELSE Return(ps, FALSE)

\* QApplication delivers every event to the event filters installed on it,
\* the most recently installed first, and stops at the first filter that
\* returns True: the event then reaches neither the remaining filters nor its
\* target.
RECURSIVE DeliverFrom(_, _, _)
DeliverFrom(ps, ev, w) ==
    IF w = 0 THEN ps
    ELSE IF ~ps.ws[w].installed THEN DeliverFrom(ps, ev, w - 1)
    ELSE LET p1 == EventFilter(ps, w, ev)
         IN  IF p1.ret THEN p1 ELSE DeliverFrom(p1, ev, w - 1)

DeliverEvent(ps, ev) == DeliverFrom([ps EXCEPT !.ret = FALSE], ev, Len(ps.ws))

HostEvent(type) == [type |-> type, button |-> "None", target |-> "panel"]

\* QWidget.hide on the docker (also reached through toggleViewAction().trigger()
\* when that action is checked): the widget is no longer visible when its
\* Hide event is sent, and the event passes the application's event filters.
HideDocker(ps) ==
    IF ~ps.vis THEN ps
    ELSE DeliverEvent([ps EXCEPT !.vis = FALSE, !.hid = @ + 1], HostEvent("Hide"))

\* QWidget.show / setVisible(True) on the docker.  A showing that starts here
\* was opened by none of the watchers that already exist.
ShowDocker(ps) ==
    IF ps.vis THEN ps
    ELSE DeliverEvent(
           [ps EXCEPT !.vis = TRUE,
                      !.ws = [k \in 1..Len(ps.ws) |-> [ps.ws[k] EXCEPT !.stale = TRUE]]],
           HostEvent("Show"))

\* The docker is visible and is hidden through toggleViewAction().trigger()
\* when that action is checked, else through hide() (lines 83-87, 495-499).
HideViaToggleAction(ps) == HideDocker(ps)

\* A variant of the visible branch that leaves the closing to the watcher's
\* deferred callback.
ToggleDefersToWatcher(ps) ==
    IF ps.acf # 0 THEN [ps EXCEPT !.pend = Append(@, ps.acf)] ELSE ps

\* The visible branch of _toggle_recorder_docker_at_cursor (lines 493-499).
ToggleVisibleDocker(ps) == HideViaToggleAction(ps)

\* A variant of _close_docker that never hides the docker.
CloseDockerNoHide(ps, w) ==
    IF ~ps.ws[w].active THEN ps
    ELSE OnAutoCloseFilterRemoved(
           [ps EXCEPT !.ws[w].active = FALSE, !.ws[w].installed = FALSE])

\* A variant of _close_docker without the test of _active (line 71).
CloseDockerUnguarded(ps, w) ==
    OnAutoCloseFilterRemoved(
        HideViaToggleAction([ps EXCEPT !.ws[w].active = FALSE,
                                       !.ws[w].installed = FALSE]))

\* _close_docker (lines 69-91) of watcher w.
CloseDocker(ps, w) ==
    IF ~ps.ws[w].active THEN ps
    ELSE OnAutoCloseFilterRemoved(
           HideViaToggleAction([ps EXCEPT !.ws[w].active = FALSE,
                                          !.ws[w].installed = FALSE]))

\* A variant of _install_auto_close_filter that only drops the reference.
DropReferenceOnly(ps) == [ps EXCEPT !.acf = 0]

\* The teardown of _install_auto_close_filter (lines 417-423).
RemoveExistingFilter(ps) ==
    IF ps.acf # 0
    THEN [ps EXCEPT !.ws[ps.acf].active = FALSE,
                    !.ws[ps.acf].installed = FALSE,
                    !.acf = 0]
    ELSE ps

\* A variant of _install_auto_close_filter that creates the watcher and does
\* not install it on the application.
CreateWithoutInstall(ps, docker) ==
    LET p1 == RemoveExistingFilter(ps)
        nw == [active |-> TRUE, installed |-> FALSE, stale |-> FALSE,
               docker |-> docker]
    IN  [p1 EXCEPT !.ws = Append(@, nw), !.acf = Len(p1.ws) + 1]

\* _install_auto_close_filter (lines 410-429); the new watcher is constructed
\* active and holds the docker (lines 32-36).
InstallAutoCloseFilter(ps, docker) ==
    LET p1 == RemoveExistingFilter(ps)
        nw == [active |-> TRUE, installed |-> TRUE, stale |-> FALSE,
               docker |-> docker]
    IN  [p1 EXCEPT !.ws = Append(@, nw), !.acf = Len(p1.ws) + 1]

\* A variant of _find_recorder_docker that returns a dock widget whatever its
\* name and title.
FindAnyDocker == "panel"

\* _find_recorder_docker (lines 456-479): the dock widget whose object name or
\* window title contains "Recorder", "None" when there is none.
FindRecorderDocker == IF dockerPresent THEN "panel" ELSE "None"

\* A popup session is Open: the docker is visible and a watcher is active and
\* installed on the application.
SessionOpen ==
    /\ dockerVisible
    /\ \E w \in 1..Len(watchers) : watchers[w].active /\ watchers[w].installed

\* The record kept of the last popup handler: the event ev and the watcher w
\* it concerned; the state before it (acf: the extension's reference, vis: the
\* docker's visibility, open: SessionOpen, act: w was active, pend: the
\* pending callbacks); sched, hid, seen and cons as counted by the handler;
\* cur and size: the cursor position and docker size the handler used; prop:
\* the size-lock property it found.
DidPopup(op, ev, w, ps) ==
    [op |-> op, ev |-> ev, w |-> w, acf |-> auto_close_filter,
     vis |-> dockerVisible, open |-> SessionOpen,
     act |-> (w \in 1..Len(watchers) /\ watchers[w].active),
     pend |-> pending, sched |-> ps.sched, hid |-> ps.hid,
     seen |-> ps.seen, cons |-> ps.cons,
     cur |-> cursor, size |-> dockerSize, prop |-> lockProperty]

PutPopup(ps) ==
    /\ watchers' = ps.ws
    /\ auto_close_filter' = ps.acf
    /\ pending' = ps.pend
    /\ dockerVisible' = ps.vis

\* The recorder docker is created by the host (hidden, docked).
DockerAppears ==
    /\ ~dockerPresent
    /\ dockerPresent' = TRUE
    /\ last' = DidPopup("dockerAppears", HostEvent("None"), 0, PopupState)
    /\ UNCHANGED <<auto_close_filter, dockerVisible, dockerFloating, watchers,
                   pending, stack, mirrorVars, iconVars, buttonVars, extraVars>>

\* The user (docker menu, workspace switch) shows the docker.
ExternalShow ==
    /\ dockerPresent /\ ~dockerVisible
    /\ LET ps == ShowDocker(PopupState)
       IN  /\ PutPopup(ps)
           /\ last' = DidPopup("externalShow", HostEvent("Show"), 0, ps)
    /\ UNCHANGED <<dockerPresent, dockerFloating, stack, mirrorVars, iconVars,
                   buttonVars, extraVars>>

\* The user (title-bar close, docker menu) or the host hides the docker.
ExternalHide ==
    /\ dockerPresent /\ dockerVisible
    /\ LET ps == HideDocker(PopupState)
       IN  /\ PutPopup(ps)
           /\ last' = DidPopup("externalHide", HostEvent("Hide"), 0, ps)
    /\ UNCHANGED <<dockerPresent, dockerFloating, stack, mirrorVars, iconVars,
                   buttonVars, extraVars>>

\* The events a user can produce anywhere in the application.
UserEvents ==
    [type : {"MouseButtonPress"}, button : {"Left", "Right"}, target : Targets]
    \cup [type : {"TabletPress"}, button : {"None"}, target : Targets]
    \cup [type : {"KeyPress"}, button : {"None"}, target : {"canvas"}]

\* One event reaches the application's event filters.
ObserveEvent(ev) ==
    /\ Len(pending) < MaxPending
    /\ LET ps == DeliverEvent(PopupState, ev)
       IN  /\ PutPopup(ps)
           /\ last' = DidPopup("event", ev, auto_close_filter, ps)
    /\ UNCHANGED <<dockerPresent, dockerFloating, stack, mirrorVars, iconVars,
                   buttonVars, extraVars>>

\* A zero-delay callback fires: _close_docker of the watcher that scheduled it.
CloseCallback ==
    /\ pending # <<>>
    /\ LET w  == Head(pending)
           ps == CloseDocker([PopupState EXCEPT !.pend = Tail(@)], w)
       IN  /\ PutPopup(ps)
           /\ last' = DidPopup("closeCallback", HostEvent("Timer"), w, ps)
    /\ UNCHANGED <<dockerPresent, dockerFloating, stack, mirrorVars, iconVars,
                   buttonVars, extraVars>>

\* _install_event_filter_for_action (lines 431-454), run by the 500 ms timer
\* of createActions; found says whether a QToolButton shows the action.
InstallEventFilterForAction(i) ==
    /\ i \in 1..Len(actions)
    /\ installTimer[i]
    /\ \E found \in BOOLEAN :
         btnFilter' = [btnFilter EXCEPT ![i] = @ \/ found]
    /\ installTimer' = [installTimer EXCEPT ![i] = FALSE]
    /\ last' = DidPopup("installButtonFilter", HostEvent("Timer"), 0, PopupState)
    /\ UNCHANGED <<mirrorVars, iconVars, popupVars, extraVars>>

\* A variant of ToolButtonEventFilter.eventFilter that toggles the docker and
\* reports the press as not handled.
ToolButtonFilterPassesOn(ev) == [toggle |-> TRUE, handled |-> FALSE]

\* ToolButtonEventFilter.eventFilter (lines 144-151): whether it calls
\* _toggle_recorder_docker_at_cursor and the value it returns; every other
\* event goes to QObject.eventFilter, which returns False.
ToolButtonEventFilter(ev) ==
    IF ev.type = "MouseButtonPress" /\ ev.button = "Right"
    THEN [toggle |-> TRUE, handled |-> TRUE]
    ELSE [toggle |-> FALSE, handled |-> FALSE]

\* The record of a press on a tool button: handled is the value the button's
\* event filter returned (FALSE when the press never reached it).
DidPress(op, ev, ps, handled) ==
    DidPopup(op, ev, auto_close_filter, ps) @@ [handled |-> handled]

\* A right button press on the tool button of control i: it passes the
\* application's event filters, then ToolButtonEventFilter.eventFilter
\* (lines 144-151) calls _toggle_recorder_docker_at_cursor (lines 481-506).
\* When the docker is hidden the handler enters _show_docker_at_cursor
\* (lines 634-664) and is suspended in its first processEvents.  A press the
\* filter does not handle reaches the QToolButton, which ignores every button
\* but the left one.
RightClick(i) ==
    /\ i \in 1..Len(actions)
    /\ btnFilter[i]
    /\ Len(pending) < MaxPending
    /\ LET ev  == [type |-> "MouseButtonPress", button |-> "Right", target |-> "button"]
           ps0 == DeliverEvent(PopupState, ev)
           r   == RestoreDockerSizeConstraints(sizeConstraints, lockProperty)
           tb  == ToolButtonEventFilter(ev)
       IN  IF ps0.ret
           THEN /\ PutPopup(ps0)
                /\ last' = DidPress("rightClickConsumed", ev, ps0, FALSE)
                /\ UNCHANGED <<dockerFloating, stack, sizeConstraints, lockProperty>>
           ELSE IF ~tb.toggle
           THEN /\ PutPopup(ps0)
                /\ last' = DidPress("rightClickPassed", ev, ps0, tb.handled)
                /\ UNCHANGED <<dockerFloating, stack, sizeConstraints, lockProperty>>
           ELSE IF FindRecorderDocker = "None"
           THEN /\ PutPopup(ps0)
                /\ last' = DidPress("rightClickNoDocker", ev, ps0, tb.handled)
                /\ UNCHANGED <<dockerFloating, stack, sizeConstraints, lockProperty>>
           ELSE IF ps0.vis
           THEN LET ps == ToggleVisibleDocker(ps0)
                IN  /\ PutPopup(ps)
                    /\ last' = DidPress("rightClickHide", ev, ps, tb.handled)
                    /\ UNCHANGED <<dockerFloating, stack, sizeConstraints, lockProperty>>
           ELSE /\ Len(stack) < MaxNest
                /\ Len(watchers) + Len(stack) < MaxWatchers
                /\ PutPopup(ps0)
                /\ dockerFloating' = TRUE
                /\ sizeConstraints' = r.c
                /\ lockProperty' = r.prop
                /\ stack' = Append(stack, [pc |-> "processEvents1", cursor_pos |-> cursor])
                /\ last' = DidPress("rightClickShow", ev, ps0, tb.handled)
    /\ UNCHANGED <<dockerPresent, cursor, dockerSize, dockerPos, rasterVars,
                   mirrorVars, iconVars, buttonVars>>

\* _show_docker_at_cursor resumes from its first processEvents (lines 666-677):
\* the docker is shown and the handler is suspended in the second one.
ShowResume1 ==
    /\ stack # <<>>
    /\ stack[Len(stack)].pc = "processEvents1"
    /\ LET ps == ShowDocker(PopupState)
       IN  /\ PutPopup(ps)
           /\ last' = DidPopup("show", HostEvent("Show"), 0, ps)
    /\ stack' = [stack EXCEPT ![Len(stack)].pc = "processEvents2"]
    /\ UNCHANGED <<dockerPresent, dockerFloating, mirrorVars, iconVars, buttonVars,
                   extraVars>>

\* _show_docker_at_cursor resumes from its second processEvents
\* (lines 679-725): the docker is made visible if it is not and moved to the
\* placement computed from the cursor position read at line 660; then
\* _toggle_recorder_docker_at_cursor installs the watcher (line 506).
ShowResume2 ==
    /\ stack # <<>>
    /\ stack[Len(stack)].pc = "processEvents2"
    /\ LET cursor_pos == stack[Len(stack)].cursor_pos
           ps == InstallAutoCloseFilter(ShowDocker(PopupState), FindRecorderDocker)
       IN  /\ PutPopup(ps)
           /\ dockerPos' = Placement(cursor_pos, dockerSize)
           /\ last' = [DidPopup("install", HostEvent("None"), auto_close_filter, ps)
                         EXCEPT !.cur = cursor_pos]
    /\ stack' = SubSeq(stack, 1, Len(stack) - 1)
    /\ UNCHANGED <<dockerPresent, dockerFloating, cursor, dockerSize, sizeConstraints,
                   lockProperty, rasterVars, mirrorVars, iconVars, buttonVars>>

\* The user docks the floating docker (drag or double click on its title bar).
\* The gesture is made on the shown window while the event loop is idle: no
\* handler is suspended and no zero-delay callback is pending.
\* QDockWidget.setFloating hides the widget, changes its window flags and
\* shows it again.
ExternalDock ==
    /\ dockerPresent /\ dockerVisible /\ dockerFloating
    /\ stack = <<>> /\ pending = <<>>
    /\ LET ps == ShowDocker(HideDocker(PopupState))
       IN  /\ PutPopup(ps)
           /\ last' = DidPopup("externalDock", HostEvent("Hide"), 0, ps)
    /\ dockerFloating' = FALSE
    /\ UNCHANGED <<dockerPresent, stack, mirrorVars, iconVars, buttonVars, extraVars>>

\* The steps of the popup controller once the windows exist.
NextPopupCore ==
    \/ DockerAppears
    \/ ExternalShow
    \/ ExternalHide
    \/ ExternalDock
    \/ \E ev \in UserEvents : ObserveEvent(ev)
    \/ CloseCallback
    \/ \E i \in 1..MaxWindows : RightClick(i)
    \/ ShowResume1
    \/ ShowResume2

NextPopup ==
    \/ Setup
    \/ CreateActions
    \/ \E i \in 1..MaxWindows : InstallEventFilterForAction(i)
    \/ NextPopupCore

PopupSpec == Init /\ [][NextPopup]_vars

\* The state after setup(), createActions for one window and the 500 ms timer
\* that put the right-click filter on its tool button.
OneWindow ==
    /\ icon_recording = "Base"
    /\ icon_not_recording = "Dimmed"
    /\ icons_prepared = TRUE
    /\ actions = <<[checked |-> FALSE, icon |-> "Dimmed", tip |-> "toggle"]>>
    /\ recorder_action = FALSE
    /\ hooked = FALSE
    /\ hook_timer = TRUE
    /\ hookPending = 1
    /\ auto_close_filter = 0
    /\ btnFilter = <<TRUE>>
    /\ installTimer = <<FALSE>>
    /\ setupDone = TRUE
    /\ recAvail = FALSE
    /\ flag = FALSE
    /\ connections = 0
    /\ dockerPresent = FALSE
    /\ dockerVisible = FALSE
    /\ dockerFloating = FALSE
    /\ watchers = <<>>
    /\ pending = <<>>
    /\ stack = <<>>
    /\ last = Did("init", 0, FALSE, FALSE, NoEffect)

OneWindowStarted == OneWindow /\ InitGeometry /\ InitRaster

\* The popup controller from that state on.  A zero-delay single-shot timer
\* fires once the event loop runs again, and processEvents returns once the
\* queued events are dispatched.
PopupFair ==
    /\ OneWindowStarted
    /\ [][NextPopupCore]_vars
    /\ WF_vars(CloseCallback)
    /\ WF_vars(ShowResume1)
    /\ WF_vars(ShowResume2)

\* One window, any cursor position and docker size: the right-click gesture
\* on the tool button.
PlacementInit ==
    /\ OneWindow
    /\ cursor \in CursorPositions
    /\ dockerSize \in DockerSizes
    /\ dockerPos = <<0, 0>>
    /\ sizeConstraints = QtConstraints
    /\ lockProperty = NoProperty
    /\ InitRaster

NextGesture ==
    \/ DockerAppears
    \/ \E i \in 1..MaxWindows : RightClick(i)
    \/ ShowResume1
    \/ ShowResume2

PlacementSpec == PlacementInit /\ [][NextGesture]_vars

\* One window and a docker the size-lock extension may have locked, with any
\* value of its property: the right-click gesture on the tool button.
ConstraintInit ==
    /\ OneWindow
    /\ cursor = <<1, 1>>
    /\ dockerSize = <<1, 1>>
    /\ dockerPos = <<0, 0>>
    /\ sizeConstraints \in {QtConstraints, LockedConstraints}
    /\ lockProperty \in PropertyValues
    /\ InitRaster

ConstraintSpec == ConstraintInit /\ [][NextGesture]_vars

\* One pass of the loop over target_sizes (lines 261-295) on the image the
\* icon rasterized to.
DesaturateRaster ==
    /\ new_image = <<>>
    /\ new_image' = DesaturateImage(src_image)
    /\ last' = [op |-> "desaturate"]
    /\ UNCHANGED <<target_size, src_image, geomVars, mirrorVars, iconVars,
                   buttonVars, popupVars>>

\* Any target size and any image of the model, not yet processed.
DesaturateInit ==
    /\ InitExtension
    /\ InitGeometry
    /\ target_size \in TargetSizes
    /\ src_image \in Images
    /\ new_image = <<>>

DesaturateSpec == DesaturateInit /\ [][DesaturateRaster]_vars

NextMirror ==
    \/ Setup
    \/ CreateActions
    \/ TryHookRecorderAction
    \/ RecorderAppears
    \/ ExternalFlagChange
    \/ \E i \in 1..MaxWindows : LocalToggle(i)

MirrorSpec == Init /\ [][NextMirror]_vars

\* The mirror with its discovery timer: a started single-shot QTimer fires once
\* the event loop runs.
MirrorFair == Init /\ [][NextMirror]_vars /\ WF_vars(TryHookRecorderAction)

\* The mirror in a process where _prepare_icons is called more than once.
NextIcons ==
    \/ NextMirror
    \/ PrepareIconsAgain

IconSpec == Init /\ [][NextIcons]_vars

\* The extension in a host that never loads the recorder docker: the mirror's
\* steps and right-clicks on the tool buttons.
NextNoDocker ==
    \/ NextMirror
    \/ \E i \in 1..MaxWindows : InstallEventFilterForAction(i)
    \/ \E i \in 1..MaxWindows : RightClick(i)

NoDockerSpec == Init /\ [][NextNoDocker]_vars

\* The state after setup() prepared the icon pair, createActions ran for one
\* window and the discovery timer bound the extension to the flag (the
\* binding pushed the flag, false, to the control).
FrameInit ==
    /\ InitGeometry
    /\ InitRaster
    /\ icon_recording = "Base"
    /\ icon_not_recording = "Dimmed"
    /\ icons_prepared = TRUE
    /\ setupDone = TRUE
    /\ actions = <<[checked |-> FALSE, icon |-> "Dimmed", tip |-> "start"]>>
    /\ recorder_action = TRUE
    /\ hooked = TRUE
    /\ hook_timer = FALSE
    /\ hookPending = 0
    /\ recAvail = TRUE
    /\ flag = FALSE
    /\ connections = 1
    /\ auto_close_filter = 0
    /\ btnFilter = <<FALSE>>
    /\ installTimer = <<TRUE>>
    /\ dockerPresent = FALSE
    /\ dockerVisible = FALSE
    /\ dockerFloating = FALSE
    /\ watchers = <<>>
    /\ pending = <<>>
    /\ stack = <<>>
    /\ last = Did("hook", 0, FALSE, FALSE, [w |-> 0, e |-> 0, p |-> 1])

\* The mirror's handlers together with the right-click gesture on the tool
\* buttons.
NextFrame ==
    \/ CreateActions
    \/ ExternalFlagChange
    \/ \E i \in 1..MaxWindows : LocalToggle(i)
    \/ \E i \in 1..MaxWindows : InstallEventFilterForAction(i)
    \/ NextGesture

FrameSpec == FrameInit /\ [][NextFrame]_vars

Next == NextMirror \/ NextPopup

Spec == Init /\ [][Next]_vars

\* ------------------------------------------------------------------------
\* Properties
\* ------------------------------------------------------------------------
\* The target is the panel or one of its descendants in the widget tree.
RECURSIVE DescendsFromPanel(_)
DescendsFromPanel(w) ==
    /\ w # "none"
    /\ (w = "panel" \/ DescendsFromPanel(Parent(w)))

Controls == 1..Len(actions)
Installed == {w \in 1..Len(watchers) : watchers[w].installed}
Active == {w \in 1..Len(watchers) : watchers[w].active}

\* No handler is suspended: the state is the end of a dispatch turn.
EndOfTurn == stack = <<>>

\* The last step was an event observed while a session was Open.
ObservedWhileOpen == last.op = "event" /\ last.open

PressOf(buttons) ==
    /\ ObservedWhileOpen
    /\ last.ev.type = "MouseButtonPress"
    /\ last.ev.button \in buttons

PenTap == ObservedWhileOpen /\ last.ev.type = "TabletPress"

\* C1: at the end of every dispatch turn, once the extension is bound to the
\* flag, every mirrored control has checked equal to the external recording
\* flag (also a control created while the flag is already true).
C1_ControlsAgreeWithFlag ==
    (EndOfTurn /\ hooked) => \A i \in Controls : actions[i].checked = flag

\* C2: once bound, every change of the flag (by its owner or forwarded from a
\* local toggle) ends its handler run with every mirrored control checked
\* equal to the flag and showing the recording icon when the flag is true, the
\* not-recording icon when it is false.
C2_FlagChangeSyncsAll ==
    (/\ last.op \in {"flagChanged", "buttonToggled"}
     /\ connections > 0
     /\ flag # last.pre)
    => /\ last.p >= 1
       /\ \A i \in Controls :
            /\ actions[i].checked = flag
            /\ actions[i].icon = IF flag THEN icon_recording ELSE icon_not_recording

\* C2 witness: a bound extension with two controls saw the flag go from true
\* to false, and the two icons differ.
C2_Witness ==
    /\ last.op = "flagChanged" /\ connections > 0
    /\ last.pre /\ ~flag
    /\ Len(actions) = 2
    /\ icon_recording # icon_not_recording

\* C3: with the flag's control available, a local toggle to X writes to the
\* external flag exactly when the flag differed from X (and the flag is X
\* afterwards); a toggle to the value the flag already has writes nothing.
C3_ForwardOnlyIfDiffers ==
    (last.op = "buttonToggled" /\ last.avail)
    => /\ (last.w = 1) <=> (last.pre # last.x)
       /\ last.w <= 1
       /\ flag = last.x

\* C3 witness: a control was toggled to the value the flag already had, and
\* nothing was written.
C3_Witness ==
    /\ last.op = "buttonToggled" /\ last.avail
    /\ last.pre = last.x
    /\ last.w = 0

\* C4: the push of a flag change to the controls never enters
\* _on_button_toggled and writes nothing to the flag, and it is one pass over
\* the controls; a forwarded local toggle enters _on_button_toggled once (the
\* toggle itself) and is pushed back in at most one pass.
C4_PushDoesNotReenter ==
    /\ (last.op = "flagChanged" /\ connections > 0)
         => (last.e = 0 /\ last.w = 0 /\ last.p = 1)
    /\ last.op = "hook" => (last.e = 0 /\ last.w = 0 /\ last.p = 1)
    /\ last.op = "buttonToggled" => (last.e = 1 /\ last.w <= 1 /\ last.p <= 1)

\* C4 witness: an external change was pushed to two controls, which both
\* changed.
C4_Witness ==
    /\ last.op = "flagChanged" /\ connections > 0
    /\ Len(actions) = 2
    /\ \A i \in Controls : actions[i].checked = flag
    /\ last.p = 1

\* C5: at most one watcher is installed, at most one is active; an install
\* that finds a previous watcher leaves it inactive and removed, and every
\* install leaves exactly the new watcher installed, active and referenced.
C5_OneWatcher ==
    /\ Cardinality(Installed) <= 1
    /\ Cardinality(Active) <= 1
    /\ last.op = "install"
         => /\ Installed = {Len(watchers)}
            /\ Active = {Len(watchers)}
            /\ auto_close_filter = Len(watchers)
            /\ last.acf # 0
                 => /\ ~watchers[last.acf].active
                    /\ ~watchers[last.acf].installed

\* C5 witness: a popup session was started while a watcher was active.
C5_Witness ==
    /\ last.op = "install"
    /\ last.acf # 0 /\ last.act

\* C6, as claimed: while Open, a pointer press (any button) on a target
\* outside the panel schedules exactly one close, a press inside none.
C6_AnyPressSchedulesOne ==
    PressOf({"Left", "Right"})
    => last.sched = IF DescendsFromPanel(last.ev.target) THEN 0 ELSE 1

\* C6, amended: while Open, a left-button press on a target outside the panel
\* schedules exactly one close; a press inside the panel, or with another
\* button, schedules none.
C6_LeftPressSchedulesOne ==
    /\ PressOf({"Left"})
         => last.sched = IF DescendsFromPanel(last.ev.target) THEN 0 ELSE 1
    /\ PressOf({"Right"}) => last.sched = 0
    /\ ObservedWhileOpen => Len(pending) = Len(last.pend) + last.sched

\* C6 witness: a left press under a non-panel dock's child scheduled one close.
C6_Witness ==
    /\ PressOf({"Left"})
    /\ last.ev.target = "otherDockChild"
    /\ last.sched = 1
    /\ pending = Append(last.pend, last.w)

\* The new session replaced a watcher that was still active.
WatcherReplaced == last.op = "install" /\ last.acf # 0 /\ last.act

\* C7, as claimed: while Open, every button press (whichever button) and every
\* pen tap outside the panel leads to the panel being closed.
C7_AnyOutsidePressCloses ==
    ((PressOf({"Left", "Right"}) \/ PenTap) /\ ~DescendsFromPanel(last.ev.target))
    ~> ~dockerVisible

\* C7, amended: while Open, every left-button press and every pen tap outside
\* the panel leads to the panel being closed, unless a new popup session
\* replaces the watcher before the deferred callback runs.
C7_LeftPressOrTapCloses ==
    ((PressOf({"Left"}) \/ PenTap) /\ ~DescendsFromPanel(last.ev.target))
    ~> (~dockerVisible \/ WatcherReplaced)

\* C7 witness: a pen tap outside the panel was observed while Open.
C7_Witness ==
    /\ PenTap
    /\ ~DescendsFromPanel(last.ev.target)
    /\ last.sched = 1

\* An outside press the watcher reacts to.
OutsidePress ==
    /\ PressOf({"Left"}) \/ PenTap
    /\ ~DescendsFromPanel(last.ev.target)

\* C8, as claimed: when the handling of an outside press returns the panel is
\* still visible and the watcher has deactivated and uninstalled itself.
C8_WatcherGoneAtPress ==
    OutsidePress
    => /\ dockerVisible
       /\ ~watchers[last.w].active
       /\ ~watchers[last.w].installed

\* C8, amended: when the handling of an outside press returns the panel is
\* still visible, nothing was hidden, the watcher is still active, installed
\* and referenced, and its callback is pending; the panel is hidden, and the
\* watcher deactivated, uninstalled and dereferenced, when the callback of a
\* still active watcher runs.
C8_CloseIsDeferred ==
    /\ OutsidePress
         => /\ dockerVisible /\ last.hid = 0
            /\ watchers[last.w].active /\ watchers[last.w].installed
            /\ auto_close_filter = last.w
            /\ pending = Append(last.pend, last.w)
    /\ (last.op = "closeCallback" /\ last.act)
         => /\ ~dockerVisible
            /\ last.vis => last.hid = 1
            /\ ~watchers[last.w].active /\ ~watchers[last.w].installed
            /\ auto_close_filter = 0
    /\ (last.op = "closeCallback" /\ ~last.act)
         => /\ last.hid = 0
            /\ dockerVisible = last.vis

\* C8 witness: the callback of an active watcher closed a visible panel.
C8_Witness ==
    /\ last.op = "closeCallback"
    /\ last.act /\ last.vis
    /\ ~dockerVisible

\* C9: whenever the panel is hidden no watcher is active or installed and the
\* extension's reference is cleared; and a callback never hides the panel in
\* a showing that began after its watcher was created.
C9_SessionEndsWhenHidden ==
    /\ ~dockerVisible
         => /\ Active = {}
            /\ Installed = {}
            /\ auto_close_filter = 0
    /\ (last.op = "closeCallback" /\ last.hid > 0) => ~watchers[last.w].stale

\* C9 witness: the panel of an Open session was hidden by the user or the
\* host, not by the watcher.
C9_Witness ==
    /\ last.op = "externalHide"
    /\ last.open
    /\ ~dockerVisible

\* C10: a right-click while the panel is visible hides it inside the handling
\* of the click; no callback is scheduled or consumed, and afterwards the
\* panel is hidden with no watcher active, installed or referenced.
C10_RightClickHidesInline ==
    last.op = "rightClickHide"
    => /\ last.vis /\ ~dockerVisible
       /\ last.hid = 1 /\ last.sched = 0
       /\ pending = last.pend
       /\ Active = {} /\ Installed = {}
       /\ auto_close_filter = 0

\* C10 witness: a right-click hid the panel of an Open session.
C10_Witness ==
    /\ last.op = "rightClickHide"
    /\ last.open
    /\ ~dockerVisible

\* C11: when the handling of a right-click that found the panel hidden
\* returns, the panel is floating and visible, and exactly one watcher is
\* active and installed: the new one, bound to the panel and referenced by
\* the extension.
C11_RightClickOpens ==
    /\ last.op = "rightClickShow" => (~last.vis /\ dockerFloating)
    /\ last.op = "install"
         => /\ dockerFloating /\ dockerVisible
            /\ Installed = {Len(watchers)}
            /\ Active = {Len(watchers)}
            /\ auto_close_filter = Len(watchers)
            /\ watchers[Len(watchers)].docker = "panel"

\* C11 witness: a second popup session was opened after the first had ended.
C11_Witness ==
    /\ last.op = "install"
    /\ last.acf = 0
    /\ Len(watchers) = 2
    /\ dockerFloating /\ dockerVisible

RightClickOps ==
    {"rightClickNoDocker", "rightClickHide", "rightClickShow", "rightClickConsumed",
     "rightClickPassed"}

\* C12: a right-click handled while no dock widget matches "Recorder" changes
\* nothing: the panel state, the watchers, the extension's watcher reference,
\* the pending callbacks, the suspended handlers, the recording flag and the
\* mirrored controls are as before, and nothing was scheduled or hidden.
C12_NoPanelNoOp ==
    [][ (last'.op \in RightClickOps /\ ~dockerPresent)
        => /\ last'.op = "rightClickNoDocker"
           /\ last'.sched = 0 /\ last'.hid = 0
           /\ UNCHANGED <<watchers, auto_close_filter, pending, stack,
                          dockerPresent, dockerVisible, dockerFloating,
                          flag, actions, recorder_action, hooked, connections,
                          geomVars>> ]_vars

\* C12 witness: a right-click found no panel while the flag was true and two
\* controls were checked.
C12_Witness ==
    /\ last.op = "rightClickNoDocker"
    /\ ~dockerPresent
    /\ flag
    /\ Len(actions) = 2
    /\ \A i \in Controls : actions[i].checked

\* C13: every call of a watcher's eventFilter returns False, whatever the
\* event and the watcher's state: no handler run counts a consumed event, and
\* no right-click is kept from the tool button by a watcher.
C13_WatcherNeverConsumes ==
    /\ "cons" \in DOMAIN last => last.cons = 0
    /\ last.op # "rightClickConsumed"

\* C13 witness: an active watcher inspected a left press outside the visible
\* panel, scheduled the close and reported the press as not handled.
C13_Witness ==
    /\ PressOf({"Left"})
    /\ ~DescendsFromPanel(last.ev.target)
    /\ last.seen = 1 /\ last.sched = 1
    /\ last.cons = 0

PlacedOnScreen == last.op = "install" /\ ScreenAt(last.cur) # 0

\* The rectangle [x, x+W) x [y, y+H) lies inside the rectangle g.
Inside(pos, size, g) ==
    /\ g.x <= pos[1] /\ pos[1] + size[1] <= g.x + g.w
    /\ g.y <= pos[2] /\ pos[2] + size[2] <= g.y + g.h

\* C15, as claimed: for every cursor position on a screen and every panel
\* size, the placed panel's rectangle lies inside the screen that contains
\* the cursor.
C15_PanelInsideScreen ==
    PlacedOnScreen
    => Inside(dockerPos, last.size, Screens[ScreenAt(last.cur)].geo)

\* C15, amended: for every cursor position on a screen and every panel no
\* wider and no taller than the screen's available area, the placed panel's
\* rectangle lies inside that area, hence inside the screen; a panel wider
\* (taller) than the area is placed at the area's left (top) edge.
C15_FittingPanelInsideScreen ==
    PlacedOnScreen
    => LET scr == Screens[ScreenAt(last.cur)]
           W   == last.size[1]
           H   == last.size[2]
       IN  /\ (W <= scr.avail.w /\ H <= scr.avail.h)
                => /\ Inside(dockerPos, last.size, scr.avail)
                   /\ Inside(dockerPos, last.size, scr.geo)
           /\ W > scr.avail.w => dockerPos[1] = scr.avail.x
           /\ H > scr.avail.h => dockerPos[2] = scr.avail.y

\* C15 witness: a panel as large as the available area, opened with the
\* cursor at the bottom-right corner of the primary screen.
C15_Witness ==
    /\ PlacedOnScreen
    /\ last.cur = <<ScreenW - 1, ScreenH - 1>>
    /\ last.size = <<ScreenW, ScreenH - 1>>
    /\ dockerPos = <<0, 1>>

\* The claim's rule for one axis: the edge minus the extent exactly when
\* cursor + extent exceeds the edge, else the cursor coordinate.  The edge is
\* the one the code reads: right() or bottom() of the available geometry.
MovedIfOverflow(pos, c, extent, edge) ==
    pos = IF c + extent > edge THEN edge - extent ELSE c

\* C16, as claimed: on each axis the panel is placed at (edge - extent)
\* exactly when cursor + extent exceeds the edge and at the cursor
\* coordinate otherwise, for every cursor position and panel size.
C16_MovedExactlyWhenOverflow ==
    PlacedOnScreen
    => LET g == Screens[ScreenAt(last.cur)].avail
       IN  /\ MovedIfOverflow(dockerPos[1], last.cur[1], last.size[1], Right(g))
           /\ MovedIfOverflow(dockerPos[2], last.cur[2], last.size[2], Bottom(g))

\* The claim's rule holds on an axis where the cursor is inside the
\* available area [lo, hi] and the extent is at most hi - lo; where the rule
\* would give a coordinate before lo, the panel is placed at lo.
AxisRule(pos, c, extent, lo, hi) ==
    /\ (lo <= c /\ extent <= hi - lo) => MovedIfOverflow(pos, c, extent, hi)
    /\ (c + extent > hi /\ hi - extent < lo) => pos = lo
    /\ (c + extent <= hi /\ c < lo) => pos = lo

\* C16, amended: with the cursor inside the screen's available area and a
\* panel smaller than that area, an axis is moved to (edge - extent) exactly
\* when cursor + extent exceeds the edge and is otherwise the cursor
\* coordinate; with the cursor at the bottom-right corner the panel is at
\* (right - W, bottom - H), not at the cursor.  A panel as large as the area
\* or larger, and a cursor before the area's left or top edge, put the panel
\* at that edge.
C16_MovedWhenOverflowAndFits ==
    PlacedOnScreen
    => LET g == Screens[ScreenAt(last.cur)].avail
           W == last.size[1]
           H == last.size[2]
       IN  /\ AxisRule(dockerPos[1], last.cur[1], W, Left(g), Right(g))
           /\ AxisRule(dockerPos[2], last.cur[2], H, Top(g), Bottom(g))
           /\ (/\ last.cur = <<Right(g), Bottom(g)>>
               /\ W <= Right(g) - Left(g) /\ H <= Bottom(g) - Top(g))
                => /\ dockerPos = <<Right(g) - W, Bottom(g) - H>>
                   /\ dockerPos # last.cur

\* C16 witness: the cursor at the bottom-right corner of the primary screen
\* and a panel that fits: it is placed at (right - W, bottom - H).
C16_Witness ==
    /\ PlacedOnScreen
    /\ last.cur = <<ScreenW - 1, ScreenH - 1>>
    /\ last.size = <<2, 1>>
    /\ dockerPos = <<ScreenW - 3, ScreenH - 2>>

\* The pixel loop has run on the image.
Desaturated == last.op = "desaturate"

\* round(n / d), halves up.
RoundDiv(n, d) == (2 * n + d) \div (2 * d)

\* C17: every pixel with non-zero alpha a and channels (R, G, B) becomes the
\* pixel with alpha round(0.30 a) and R = G = B = round(0.299 R + 0.587 G +
\* 0.114 B).
C17_DimmedPixelIsRounded ==
    Desaturated
    => \A k \in 1..Len(src_image) :
         src_image[k].a # 0
         => LET p == src_image[k]
                q == new_image[k]
                luma == RoundDiv(WeightR * p.r + WeightG * p.g + WeightB * p.b, 1000)
            IN  /\ q.a = RoundDiv(OpacityPercent * p.a, 100)
                /\ q.r = luma /\ q.g = luma /\ q.b = luma

\* C18: every fully transparent pixel is unchanged in all four channels, at
\* every target size, and the image keeps its number of pixels.
C18_TransparentUnchanged ==
    Desaturated
    => /\ Len(new_image) = Len(src_image)
       /\ \A k \in 1..Len(src_image) :
            src_image[k].a = 0 => new_image[k] = src_image[k]

\* C18 witness: an image at size 128 whose opaque first pixel was dimmed and
\* whose second pixel, transparent with colour in its channels, was kept.
C18_Witness ==
    /\ Desaturated
    /\ target_size = 128
    /\ Len(src_image) = 2
    /\ src_image[1].a = MaxChannel /\ new_image[1] # src_image[1]
    /\ src_image[2] = Pixel(<<MaxChannel, 0, 0>>, 0)
    /\ new_image[2] = src_image[2]

\* C19: a call of _prepare_icons made after the first one leaves the
\* recording icon and the not-recording icon as it found them, whatever icon
\* the host returns and also when the first call found the base icon missing.
C19_PairBuiltOnce ==
    last.op = "prepareIcons"
    => /\ icon_recording = last.rec
       /\ icon_not_recording = last.notrec

\* The last step opened a popup: _show_docker_at_cursor repaired the
\* constraints (line 653).
Opened == last.op = "rightClickShow"

\* The property held a snapshot of at least four values.
SnapshotOfFour(prop) == prop.kind = "list" /\ Len(prop.vals) >= 4

\* C20: when a popup is opened, a stored snapshot of at least four values
\* becomes the minimum/maximum width and height, otherwise they become the
\* defaults (minimum 100, maximum 16777215); after any open the snapshot
\* property is absent.
C20_ConstraintsRepaired ==
    Opened
    => /\ sizeConstraints =
            IF SnapshotOfFour(last.prop)
            THEN Constraints(last.prop.vals[1], last.prop.vals[2],
                             last.prop.vals[3], last.prop.vals[4])
            ELSE Constraints(DefaultMinimum, MAX_QT_DIMENSION,
                             DefaultMinimum, MAX_QT_DIMENSION)
       /\ lockProperty = NoProperty

\* A zero-delay callback of watcher w runs in this step.
CallbackRuns(w) ==
    /\ pending # <<>>
    /\ Head(pending) = w
    /\ last'.op = "closeCallback"

\* C21: a deferred close callback whose watcher is no longer active changes
\* nothing but the callback queue: the panel's visibility, every watcher and
\* the extension's watcher reference are as before and nothing is hidden.  A
\* callback that hides the panel belongs to an active watcher and leaves it
\* inactive, and an inactive watcher never becomes active again: the
\* callbacks of one session hide the panel at most once.
C21_StaleCallbackNoOp ==
    [][ /\ \A w \in 1..Len(watchers) :
             CallbackRuns(w) =>
               /\ ~watchers[w].active
                    => /\ UNCHANGED <<watchers, auto_close_filter, dockerVisible>>
                       /\ pending' = Tail(pending)
                       /\ last'.hid = 0
               /\ last'.hid <= 1
               /\ last'.hid = 1 => (watchers[w].active /\ ~watchers'[w].active)
        /\ \A w \in 1..Len(watchers) :
             ~watchers[w].active => ~watchers'[w].active ]_vars

\* C21 witness: the callback of a replaced watcher ran while the panel was
\* visible and a newer watcher was active and referenced by the extension.
C21_Witness ==
    /\ last.op = "closeCallback"
    /\ ~last.act
    /\ dockerVisible
    /\ auto_close_filter # 0 /\ auto_close_filter # last.w
    /\ watchers[auto_close_filter].active

\* C22: at the end of every dispatch turn the extension's watcher reference
\* is set exactly when the watcher it names is active and installed; an
\* active watcher is the referenced one, and a watcher is active exactly when
\* it is installed (every deactivation also uninstalls).
C22_ReferenceIffActive ==
    EndOfTurn =>
      /\ auto_close_filter # 0
           => /\ auto_close_filter \in 1..Len(watchers)
              /\ watchers[auto_close_filter].active
              /\ watchers[auto_close_filter].installed
      /\ \A w \in 1..Len(watchers) :
           /\ watchers[w].active => auto_close_filter = w
           /\ watchers[w].active <=> watchers[w].installed

\* C22 witness: the deferred callback of the referenced, active watcher ran
\* at the end of a turn and left no watcher active, none installed and the
\* reference cleared.
C22_Witness ==
    /\ EndOfTurn
    /\ last.op = "closeCallback"
    /\ last.act /\ last.acf = last.w
    /\ auto_close_filter = 0
    /\ Active = {} /\ Installed = {}

\* C23: whatever the number of windows and the order of createActions and
\* timer firings, at most one discovery timer is pending (exactly when the
\* extension references one), the extension is connected to the flag's
\* change signal at most once, and a change of the flag is pushed to the
\* controls once per connection: exactly once when bound.
C23_OneTimerOneConnection ==
    /\ hookPending <= 1
    /\ hook_timer <=> hookPending = 1
    /\ connections <= 1
    /\ hooked <=> connections = 1
    /\ last.op = "flagChanged" => last.p = connections
    /\ (last.op = "buttonToggled" /\ last.w = 1) => last.p = connections

\* C23 witness: createActions ran for a second window while the extension was
\* not bound and a discovery timer was already pending; one timer is pending.
C23_Witness ==
    /\ last.op = "createActions" /\ last.i = 2
    /\ ~hooked
    /\ hook_timer /\ hookPending = 1

\* The cached pair holds two different icons: the full one and the dimmed one.
PairPrepared == icons_prepared /\ icon_recording # icon_not_recording

\* C24: at the end of every dispatch turn, with the pair prepared, each
\* mirrored control shows the full icon if and only if it is checked and the
\* dimmed icon otherwise, also after a local toggle made while the flag's
\* control is unavailable or while the flag already has the toggled value.
C24_IconMatchesChecked ==
    (EndOfTurn /\ PairPrepared)
    => \A i \in Controls :
         actions[i].icon = IF actions[i].checked THEN icon_recording
                           ELSE icon_not_recording

\* C25: a right button press on a mirrored control's tool button is handled
\* by the button's event filter (it returns True, the press does not reach
\* the button) and toggles the popup only: whether no panel is found, the
\* panel is visible and gets hidden, or it is hidden and gets opened, the
\* recording flag, every control's checked state, icon and tooltip and the
\* binding to the flag are as before; the same holds for the steps that
\* complete the opening.
C25_RightClickFrame ==
    [][ /\ last'.op \in RightClickOps
             => /\ last'.handled
                /\ last'.op \in {"rightClickNoDocker", "rightClickHide",
                                 "rightClickShow"}
                /\ UNCHANGED <<flag, actions, recorder_action, hooked,
                               connections>>
        /\ last'.op \in {"show", "install"}
             => UNCHANGED <<flag, actions, recorder_action, hooked,
                            connections>> ]_vars

\* C25 witness: with the flag true and two controls checked and showing the
\* full icon, a right-click found the panel visible and hid it.
C25_Witness ==
    /\ last.op = "rightClickHide"
    /\ last.handled
    /\ last.vis /\ ~dockerVisible
    /\ flag
    /\ Len(actions) = 2
    /\ \A i \in Controls : actions[i].checked /\ actions[i].icon = "Base"

=============================================================================
